---- MODULE Spec2Model ----
(***************************************************************************)
(* TM2 ingestion pipeline (src/app): IngestionService driving the reader,  *)
(* the validator/transformer and MongoService for ingestion, and           *)
(* MongoService + OpenMRSClient for submission.                            *)
(*                                                                         *)
(* Modelling conventions                                                   *)
(*  - Python dicts are functions from key strings to values; a key that    *)
(*    is not in the dict is not in the DOMAIN.  Python None is the value   *)
(*    None below; str(None) is "None".                                     *)
(*  - A float is carried as its Python str() form ("42.0").                *)
(*  - pymongo calls are synchronous, so each store call is one atomic      *)
(*    step; runs of different triggers interleave between store calls.     *)
(*  - Calls to the logger are not modelled (structured logging is outside  *)
(*    the pipeline core); the logger is taken never to raise.              *)
(*  - DuplicateKeyError (a PyMongoError) has the effect of the             *)
(*    "PyMongoError" outcome of an upsert: no write, returns False.        *)
(*  - OpenMRSClient: one HTTP exchange is one step; the tenacity wrapper   *)
(*    of _make_request is the attempt counter of the call in progress,     *)
(*    its waits between attempts are not modelled.  The client keeps, for  *)
(*    the create_* call in progress, how many requests and                 *)
(*    re-authentications it made and which kinds of answer it received.    *)
(***************************************************************************)
EXTENDS Integers, Sequences, FiniteSets, TLC

\* ------------------------------------------------------------------ bounds
MaxFileLen == 4
MaxIngestRuns == 2
MaxSubmitRuns == 2
MaxFaults == 1
MaxClock == 2
MaxRuns == 3
MaxOverlapFileLen == 3
MaxClientCalls == 2
MaxRecordFileLen == 2
MaxSubmitsFileLen == 2
MaxMarksFileLen == 3
MaxPipelineFileLen == 2

\* ------------------------------------------------------- program constants
DlqThreshold == 3
DefaultLimit == 100
StopAfterAttempt == 3
DefaultMaxRetries == 3

\* ------------------------------------------------------------ Python values
None == "<None>"
Missing == "<missing>"
BadLine == [unparseable |-> TRUE]

PyStr(v) == IF v = None THEN "None" ELSE v

Get(d, k, default) == IF k \in DOMAIN d THEN d[k] ELSE default

Truthy(v) == v # None /\ v # ""

\* ------------------------------------------------------ RawTM2Record schema
\* str.strip() on the strings that occur in the inputs
strip(s) ==
  CASE s = " 123 " -> "123"
    [] s = " fever " -> "fever"
    [] s = "dry  cough" -> "dry  cough"
    [] s = " " -> ""
    [] OTHER -> s

\* str.upper() on the gender strings that occur in the inputs
upper(s) ==
  CASE s = "m" -> "M"
    [] s = "f" -> "F"
    [] OTHER -> s

\* " ".join(text.split()).strip()
_clean_text(text) ==
  IF ~Truthy(text) THEN ""
  ELSE CASE text = "dry  cough" -> "dry cough"
         [] text = " fever " -> "fever"
         [] OTHER -> text

\* pydantic datetime parsing followed by datetime.isoformat(); Missing when
\* the string is not a datetime
ParseDatetimeIso(s) ==
  CASE s = "2023-01-01T12:00:00" -> "2023-01-01T12:00:00"
    [] s = "2023-01-01 12:00:00" -> "2023-01-01T12:00:00"
    [] s = "2023-01-02T12:00:00" -> "2023-01-02T12:00:00"
    [] OTHER -> Missing

\* pydantic float parsing followed by str(float); Missing when the string is
\* not a number
ParseFloatStr(s) ==
  CASE s = "42" -> "42.0"
    [] s = "42.0" -> "42.0"
    [] s = "0" -> "0.0"
    [] s = "7" -> "7.0"
    [] OTHER -> Missing

RequiredStrOk(raw, k) == k \in DOMAIN raw /\ raw[k] # None

OptionalOf(raw, k) == Get(raw, k, None)

validate_gender(v) == IF v # None THEN upper(v) ELSE v

GenderOk(raw) ==
  LET v == OptionalOf(raw, "gender")
  IN  v = None \/ upper(v) \in {"M", "F", "O", "U"}

DatetimeOk(raw) ==
  LET v == OptionalOf(raw, "encounter_datetime")
  IN  v = None \/ ParseDatetimeIso(v) # Missing

NumericOk(raw) ==
  LET v == OptionalOf(raw, "value_numeric")
  IN  v = None \/ ParseFloatStr(v) # Missing

strip_whitespace(v) == IF Truthy(v) THEN strip(v) ELSE v

\* RawTM2Record(**raw_record) raises ValidationError iff this is FALSE
RawValid(raw) ==
  /\ RequiredStrOk(raw, "patient_identifier")
  /\ RequiredStrOk(raw, "tm2_code")
  /\ GenderOk(raw)
  /\ DatetimeOk(raw)
  /\ NumericOk(raw)

\* the validated RawTM2Record (every field present, defaults None)
RawTM2Record(raw) ==
  [patient_identifier |-> strip_whitespace(raw["patient_identifier"]),
   given_name         |-> strip_whitespace(OptionalOf(raw, "given_name")),
   gender             |-> validate_gender(OptionalOf(raw, "gender")),
   encounter_datetime |-> OptionalOf(raw, "encounter_datetime"),
   tm2_code           |-> raw["tm2_code"],
   value_numeric      |-> IF OptionalOf(raw, "value_numeric") = None THEN None
                          ELSE ParseFloatStr(raw["value_numeric"]),
   value_text         |-> strip_whitespace(OptionalOf(raw, "value_text")),
   value_coded        |-> OptionalOf(raw, "value_coded")]

\* ------------------------------------------------------------ mapping table
\* IngestionService.mappings as set by the test fixture
mappings == [c \in {"test_code"} |-> "concept-uuid"]

\* ---------------------------------------------------------- idempotency key
sha256hex(s) == <<"sha256", s>>

value_of(record) ==
  PyStr(Get(record, "value_numeric",
            Get(record, "value_text",
                Get(record, "value_coded", ""))))

\* the dict key_data, as the tuple of its values in sorted key order
key_data(record) ==
  <<PyStr(Get(record, "encounter_datetime", "")),
    PyStr(Get(record, "patient_identifier", "")),
    PyStr(Get(record, "tm2_code", "")),
    value_of(record)>>

\* "|".join(f"{k}:{v}" for k, v in sorted(key_data.items()))
normalized(record) ==
     "encounter_datetime:" \o key_data(record)[1]
  \o "|patient_identifier:" \o key_data(record)[2]
  \o "|tm2_code:" \o key_data(record)[3]
  \o "|value:" \o key_data(record)[4]

\* variant: the given name is hashed as well
compute_idempotency_key_with_name(record) ==
  sha256hex(normalized(record) \o "|given_name:" \o PyStr(Get(record, "given_name", "")))

compute_idempotency_key(record) == sha256hex(normalized(record))

\* ------------------------------------------------- validator / transformer
\* variant: every value the raw record supplies is carried over
ValueSlotAll(raw) ==
  (IF raw.value_numeric # None THEN [value_numeric |-> raw.value_numeric] ELSE <<>>)
  @@ (IF Truthy(raw.value_text) THEN [value_text |-> _clean_text(raw.value_text)] ELSE <<>>)
  @@ (IF Truthy(raw.value_coded) THEN [value_coded |-> raw.value_coded] ELSE <<>>)

ValueSlot(raw) ==
  IF raw.value_numeric # None THEN [value_numeric |-> raw.value_numeric]
  ELSE IF Truthy(raw.value_text) THEN [value_text |-> _clean_text(raw.value_text)]
  ELSE IF Truthy(raw.value_coded) THEN [value_coded |-> raw.value_coded]
  ELSE <<>>

\* variant: a code without mapping gets a default concept
transformed_data_default_concept(raw) ==
  [patient_identifier   |-> raw.patient_identifier,
   given_name           |-> raw.given_name,
   gender               |-> raw.gender,
   encounter_datetime   |-> IF raw.encounter_datetime # None
                            THEN ParseDatetimeIso(raw.encounter_datetime) ELSE None,
   tm2_code             |-> raw.tm2_code,
   openmrs_concept_uuid |-> Get(mappings, raw.tm2_code, "default-concept-uuid")]
  @@ ValueSlot(raw)

\* the dict transformed_data before the key is added
transformed_data(raw) ==
  [patient_identifier   |-> raw.patient_identifier,
   given_name           |-> raw.given_name,
   gender               |-> raw.gender,
   encounter_datetime   |-> IF raw.encounter_datetime # None
                            THEN ParseDatetimeIso(raw.encounter_datetime) ELSE None,
   tm2_code             |-> raw.tm2_code,
   openmrs_concept_uuid |-> Get(mappings, raw.tm2_code, None)]
  @@ ValueSlot(raw)

\* TransformedTM2Record(**transformed_data).model_dump(): every field present
model_dump(td) ==
  [patient_identifier   |-> td["patient_identifier"],
   given_name           |-> td["given_name"],
   gender               |-> td["gender"],
   encounter_datetime   |-> td["encounter_datetime"],
   tm2_code             |-> td["tm2_code"],
   openmrs_concept_uuid |-> td["openmrs_concept_uuid"],
   value_numeric        |-> Get(td, "value_numeric", None),
   value_text           |-> Get(td, "value_text", None),
   value_coded          |-> Get(td, "value_coded", None),
   idempotency_key      |-> td["idempotency_key"]]

\* _validate_and_transform(raw_record) for a raw record that validates
_validate_and_transform(raw_record) ==
  LET td == transformed_data(RawTM2Record(raw_record))
  IN  model_dump(td @@ [idempotency_key |-> compute_idempotency_key(td)])

\* ------------------------------------------------------------------ inputs
CsvRow(pid, name, num) ==
  [patient_identifier |-> pid, given_name |-> name, gender |-> "M",
   encounter_datetime |-> "2023-01-01T12:00:00", tm2_code |-> "test_code",
   value_numeric |-> num, value_text |-> "", value_coded |-> ""]

\* the row of test_ingest_from_file
RowA == CsvRow("123", "John", "42")
\* the same logical record as RowA, other demographics and spelling
RowA2 == [CsvRow(" 123 ", "Jon", "42.0") EXCEPT !.gender = "m",
                                               !.encounter_datetime = "2023-01-01 12:00:00"]
RowB == CsvRow("124", "Asha", "7")
RowC == [CsvRow("125", "Ravi", "0") EXCEPT !.tm2_code = "unmapped"]
RowD == [CsvRow("126", "Mira", "7") EXCEPT !.encounter_datetime = "2023-01-02T12:00:00"]
RowE == CsvRow("127", "Dev", "42")
RowF == CsvRow("128", "Uma", "42")
\* a JSON object without patient_identifier
RowNoId == [given_name |-> "Nobody", tm2_code |-> "test_code", value_numeric |-> "42"]
\* a CSV row whose gender is not in the enumerated set
RowBadGender == [CsvRow("129", "Kim", "7") EXCEPT !.gender = "X"]
\* a JSON object with a text value
RowText == [patient_identifier |-> "123", tm2_code |-> "test_code",
            encounter_datetime |-> "2023-01-01T12:00:00",
            value_numeric |-> None, value_text |-> " fever ", value_coded |-> None]

Templates ==
  { <<RowA, RowB, RowC, RowD, RowE, RowF>>,
    <<RowA, RowNoId, RowA2, RowB, RowA, RowBadGender>>,
    <<RowText, BadLine, RowA, RowB, RowC, RowD>> }

Files == { SubSeq(T, 1, n) : T \in Templates, n \in 0..MaxFileLen }

\* a JSON object with the given identifier, code and values
JsonRow(pid, code, num, text, coded) ==
  [patient_identifier |-> pid, given_name |-> "John", tm2_code |-> code,
   encounter_datetime |-> "2023-01-01T12:00:00",
   value_numeric |-> num, value_text |-> text, value_coded |-> coded]

\* every way of supplying the three values
ValueRows ==
  { JsonRow("123", "test_code", num, text, coded) :
      num \in {None, "42"}, text \in {None, "", " fever "}, coded \in {None, "", "C1"} }
  \cup { JsonRow("123", "test_code", "0", "dry  cough", "C1"),
         JsonRow("123", "test_code", None, " ", "C1") }

\* identifiers and codes that contain the characters the key encoding joins with
DelimiterRows ==
  { JsonRow(pc[1], pc[2], "42", None, None) :
      pc \in { <<"a|tm2_code:b", "c">>, <<"a", "b|tm2_code:c">>,
               <<"a|", "b">>, <<"a", ":b">> } }

\* the logical record of RowText, other demographics and spelling
RowText2 == [RowText EXCEPT !.value_text = "fever"] @@ [given_name |-> "Jon", gender |-> "f"]

\* CSV rows whose value_numeric cell is empty: csv.DictReader yields "" for it
RowCsvText == [CsvRow("130", "Lata", "") EXCEPT !.value_text = "fever"]
RowCsvNoValue == CsvRow("131", "Om", "")

RawRecords ==
  ValueRows \cup DelimiterRows
  \cup {RowA, RowA2, RowText, RowText2, RowC, RowNoId, RowBadGender, BadLine,
        RowCsvText, RowCsvNoValue}

\* the files of at most MaxRecordFileLen lines over RawRecords
RecordFiles == UNION { [1..n -> RawRecords] : n \in 0..MaxRecordFileLen }

PathKinds == {"file", "missing", "directory"}

IngestRuns == 1..MaxIngestRuns
SubmitRuns == 1..MaxSubmitRuns

IngestBatch(i) == <<"ingest", i>>
SubmitBatch(s) == <<"submit", s>>

\* ------------------------------------------------------------------- state
VARIABLES
  mongoInit,        \* Mongo._client is set (Mongo.init ran at startup)
  create_patients,  \* settings.openmrs.create_patients
  file,             \* the lines of the data file, as the reader parses them
  clock,            \* datetime.now(timezone.utc)
  faults,           \* store calls that raised PyMongoError so far
  primary,          \* tm2_records, in storage order
  dlq,              \* tm2_dlq
  audit,            \* tm2_audit
  ingest,           \* the ingest_from_file invocations
  submit,           \* the submit_pending_records invocations
  openmrs           \* the OpenMRSClient: its settings, session and call in progress

vars == <<mongoInit, create_patients, file, clock, faults, primary, dlq, audit, ingest,
          submit, openmrs>>

NoTime == 0

\* ----------------------------------------------------------- MongoService
IndexOfKey(coll, key) ==
  IF \E i \in 1..Len(coll) : coll[i].idempotency_key = key
  THEN CHOOSE i \in 1..Len(coll) :
         /\ coll[i].idempotency_key = key
         /\ \A j \in 1..(i - 1) : coll[j].idempotency_key # key
  ELSE 0

NewDoc(key, record, batch_id, now) ==
  [idempotency_key  |-> key,
   data             |-> record,
   status           |-> "processed",
   batch_id         |-> batch_id,
   created_at       |-> now,
   updated_at       |-> now,
   first_seen       |-> now,
   submitted_at     |-> NoTime,
   submission_error |-> None]

\* variant: insert_one in place of the keyed upsert
UpsertedCollInsertOnly(coll, record, batch_id, now) ==
  Append(coll, NewDoc(compute_idempotency_key(record), record, batch_id, now))

\* variant: the filter also matches on batch_id, so another run's document
\* is not found
UpsertedCollPerBatch(coll, record, batch_id, now) ==
  LET key == compute_idempotency_key(record)
      own == { k \in 1..Len(coll) :
                 coll[k].idempotency_key = key /\ coll[k].batch_id = batch_id }
  IN  IF own = {}
      THEN Append(coll, NewDoc(key, record, batch_id, now))
      ELSE [coll EXCEPT ![CHOOSE k \in own : TRUE] =
              [@ EXCEPT !.data = record, !.status = "processed",
                        !.created_at = now, !.updated_at = now]]

\* variant of UpsertedColl: the stored document is replaced by a new one
UpsertedCollReplacesDocument(coll, record, batch_id, now) ==
  LET key == compute_idempotency_key(record)
      i   == IndexOfKey(coll, key)
  IN  IF i = 0
      THEN Append(coll, NewDoc(key, record, batch_id, now))
      ELSE [coll EXCEPT ![i] = NewDoc(key, record, batch_id, now)]

\* variant of UpsertedColl: first_seen is written with the other fields
UpsertedCollFirstSeenSet(coll, record, batch_id, now) ==
  LET key == compute_idempotency_key(record)
      i   == IndexOfKey(coll, key)
  IN  IF i = 0
      THEN Append(coll, NewDoc(key, record, batch_id, now))
      ELSE [coll EXCEPT ![i] = [@ EXCEPT !.data       = record,
                                         !.status     = "processed",
                                         !.batch_id   = batch_id,
                                         !.created_at = now,
                                         !.updated_at = now,
                                         !.first_seen = now]]

\* update_one(filter by key, {$set: record_doc, $setOnInsert: first_seen}, upsert=True)
UpsertedColl(coll, record, batch_id, now) ==
  LET key == compute_idempotency_key(record)
      i   == IndexOfKey(coll, key)
  IN  IF i = 0
      THEN Append(coll, NewDoc(key, record, batch_id, now))
      ELSE [coll EXCEPT ![i] = [@ EXCEPT !.data       = record,
                                         !.status     = "processed",
                                         !.batch_id   = batch_id,
                                         !.created_at = now,
                                         !.updated_at = now]]

\* variant of UpsertReturn: only a modification of a stored document counts
UpsertReturnModifiedOnly(coll, record, batch_id, now) ==
  /\ IndexOfKey(coll, compute_idempotency_key(record)) # 0
  /\ UpsertedColl(coll, record, batch_id, now) # coll

\* result.upserted_id is not None or result.modified_count > 0
UpsertReturn(coll, record, batch_id, now) ==
  \/ IndexOfKey(coll, compute_idempotency_key(record)) = 0
  \/ UpsertedColl(coll, record, batch_id, now) # coll

\* find({status: processed, submitted_at: {$exists: False}}, projection).limit(limit)
IsPending(doc) == doc.status = "processed" /\ doc.submitted_at = NoTime

Project(doc) == [idempotency_key |-> doc.idempotency_key,
                 data            |-> doc.data,
                 batch_id        |-> doc.batch_id]

\* variant of Take: the cursor is not limited
TakeAll(seq, n) == seq

Take(seq, n) == SubSeq(seq, 1, IF Len(seq) < n THEN Len(seq) ELSE n)

PendingOf(coll, limit) ==
  LET matching == SelectSeq(coll, IsPending)
      page     == Take(matching, limit)
  IN  [k \in 1..Len(page) |-> Project(page[k])]

\* variant of MarkedColl: the update is an upsert
MarkedCollUpserts(coll, key, success, error_msg, now) ==
  LET i    == IndexOfKey(coll, key)
      made == [idempotency_key |-> key, data |-> None, status |-> "processed",
               batch_id |-> None, created_at |-> NoTime, updated_at |-> now,
               first_seen |-> NoTime, submitted_at |-> NoTime,
               submission_error |-> None]
      held == IF i = 0 THEN Append(coll, made) ELSE coll
      n    == IF i = 0 THEN Len(held) ELSE i
  IN  IF success
      THEN [held EXCEPT ![n] = [@ EXCEPT !.updated_at   = now,
                                         !.status       = "submitted",
                                         !.submitted_at = now]]
      ELSE [held EXCEPT ![n] = [@ EXCEPT !.updated_at       = now,
                                         !.status           = "submission_failed",
                                         !.submission_error = error_msg]]

\* variant: the update document carries the status alone
MarkedCollStatusOnly(coll, key, success, error_msg, now) ==
  LET i == IndexOfKey(coll, key)
  IN  IF i = 0 THEN coll
      ELSE [coll EXCEPT ![i] = [@ EXCEPT !.updated_at = now,
                                         !.status = IF success THEN "submitted"
                                                    ELSE "submission_failed"]]

\* update_one(filter by key, {$set: update_doc})
MarkedColl(coll, key, success, error_msg, now) ==
  LET i == IndexOfKey(coll, key)
  IN  IF i = 0 THEN coll
      ELSE IF success
           THEN [coll EXCEPT ![i] = [@ EXCEPT !.updated_at   = now,
                                              !.status       = "submitted",
                                              !.submitted_at = now]]
           ELSE [coll EXCEPT ![i] = [@ EXCEPT !.updated_at       = now,
                                              !.status           = "submission_failed",
                                              !.submission_error = error_msg]]

DlqDoc(record, error_msg, batch_id, now) ==
  [original_record |-> record, error_message |-> error_msg,
   batch_id |-> batch_id, created_at |-> now]

Without(seq, i) == [k \in 1..(Len(seq) - 1) |-> IF k < i THEN seq[k] ELSE seq[k + 1]]

\* delete_one({idempotency_key: compute_idempotency_key(record)})
DeletedColl(coll, record) ==
  LET i == IndexOfKey(coll, compute_idempotency_key(record))
  IN  IF i = 0 THEN coll ELSE Without(coll, i)

AuditDoc(event_type, details, batch_id, now) ==
  [event_type |-> event_type, details |-> details,
   batch_id |-> batch_id, created_at |-> now]

\* what a store call can do: Mongo.client() raises RuntimeError when the
\* client was never initialised; otherwise the call succeeds or pymongo
\* raises a PyMongoError
StoreOutcomes ==
  IF ~mongoInit THEN {"RuntimeError"}
  ELSE {"ok"} \cup (IF faults < MaxFaults THEN {"PyMongoError"} ELSE {})

FaultsAfter(outcome) == IF outcome = "PyMongoError" THEN faults + 1 ELSE faults

\* ------------------------------------------------------- IngestionService
IsBadLine(item) == "unparseable" \in DOMAIN item

ZeroIngestStats ==
  [total_read |-> 0, valid_records |-> 0, invalid_records |-> 0,
   persisted_records |-> 0, errors |-> <<>>]

ZeroSubmitStats ==
  [attempted |-> 0, successful |-> 0, failed |-> 0, errors |-> <<>>]

IdleIngest ==
  [pc |-> "idle", pos |-> 0, stats |-> ZeroIngestStats, result |-> "none",
   store_errors |-> 0, path |-> "none"]

IdleSubmit ==
  [pc |-> "idle", limit |-> 0, pending |-> <<>>, idx |-> 0,
   stats |-> ZeroSubmitStats, error_msg |-> None, result |-> "none"]

\* the page sizes tried besides the default
Limits == {1, DefaultLimit}

\* what the awaited submission can do as seen by submit_pending_records:
\* submit_tm2_record returns False right away when no patient can be resolved
\* (create_patients off and no patient_uuid passed), else True or False; the
\* handler of lines 152-161 takes an exception escaping the try body
SubmitOutcomes ==
  (IF create_patients THEN {"True", "False"} ELSE {"False"}) \cup {"raise"}

SubmissionFailedMsg == "OpenMRS submission failed"
SubmissionErrorMsg == "Submission error: boom"

\* ----------------------------------------------------------- OpenMRSClient
Endpoints == {"patient", "encounter", "obs"}

\* what one HTTP exchange of _make_request can come to: a 2xx body with or
\* without a uuid, a 401, another 4xx, a 5xx (raise_for_status raises
\* HTTPStatusError for the three), or a connection error / timeout
\* (httpx.RequestError)
Responses == {"uuid", "no_uuid", "401", "4xx", "5xx", "RequestError"}

UuidOf(step) == step \o "-uuid"

NoneSent == [e \in Endpoints |-> 0]

\* the client of the default settings, no call made yet
IdleClient ==
  [pc |-> "idle",
   base_url |-> None, credentials |-> FALSE, max_retries |-> DefaultMaxRetries,
   _session_token |-> None,
   calls |-> 0, step |-> "none",
   patient_uuid |-> None, encounter_uuid |-> None, obs_uuid |-> None,
   attempt |-> 0, sends |-> 0, reauths |-> 0, kinds |-> {},
   sent |-> NoneSent, result |-> "none",
   had_token |-> FALSE, auths |-> 0, obtained |-> None, attached |-> None]

\* the values of settings.openmrs.max_retries tried
MaxRetriesChoices == {DefaultMaxRetries - 1, DefaultMaxRetries}

\* submit_tm2_record returns
Finish(c, result) == [c EXCEPT !.pc = "done", !.result = result]

\* create_patient / create_encounter / create_observation is entered
CallStart(c, step) ==
  [c EXCEPT !.pc = "session", !.step = step,
            !.attempt = 0, !.sends = 0, !.reauths = 0, !.kinds = {}]

\* variant: a step that returned None does not stop the sequence
ReturnedKeepsGoing(c, uuid) ==
  CASE c.step = "patient"   -> CallStart([c EXCEPT !.patient_uuid = uuid], "encounter")
    [] c.step = "encounter" -> CallStart([c EXCEPT !.encounter_uuid = uuid], "obs")
    [] OTHER -> Finish([c EXCEPT !.obs_uuid = uuid],
                       IF uuid # None THEN "True" ELSE "False")

\* variant: the result does not look at the observation uuid
ReturnedObsIgnored(c, uuid) ==
  CASE c.step = "patient" ->
         IF uuid = None THEN Finish(c, "False")
         ELSE CallStart([c EXCEPT !.patient_uuid = uuid], "encounter")
    [] c.step = "encounter" ->
         IF uuid = None THEN Finish(c, "False")
         ELSE CallStart([c EXCEPT !.encounter_uuid = uuid], "obs")
    [] OTHER -> Finish([c EXCEPT !.obs_uuid = uuid], "True")

\* submit_tm2_record goes on after create_* returned uuid (None on failure)
Returned(c, uuid) ==
  CASE c.step = "patient" ->
         IF uuid = None THEN Finish(c, "False")
         ELSE CallStart([c EXCEPT !.patient_uuid = uuid], "encounter")
    [] c.step = "encounter" ->
         IF uuid = None THEN Finish(c, "False")
         ELSE CallStart([c EXCEPT !.encounter_uuid = uuid], "obs")
    [] OTHER -> Finish([c EXCEPT !.obs_uuid = uuid],
                       IF uuid # None THEN "True" ELSE "False")

\* an httpx.HTTPError leaves an attempt of _make_request: tenacity runs the
\* function again until stop_after_attempt, then raises RetryError, which
\* create_* catches and turns into None
Retried(c) ==
  IF c.attempt < StopAfterAttempt
  THEN [c EXCEPT !.pc = "request", !.attempt = @ + 1]
  ELSE Returned(c, None)

\* _authenticate: skipped without base_url or credentials; else the session
\* request either yields a JSESSIONID or leaves the token as it is; auths
\* counts the calls and obtained is what the call returned
_authenticate(c, granted) ==
  IF c.base_url = None \/ ~c.credentials
  THEN [c EXCEPT !.auths = @ + 1, !.obtained = None]
  ELSE IF granted
       THEN [c EXCEPT !._session_token = "JSESSIONID",
                      !.auths = @ + 1, !.obtained = "JSESSIONID"]
       ELSE [c EXCEPT !.auths = @ + 1, !.obtained = None]

\* the exchange is counted; attached is the JSESSIONID cookie it carried
Exchanged(c, resp) ==
  [c EXCEPT !.sends = @ + 1, !.sent[c.step] = @ + 1, !.kinds = @ \cup {resp},
            !.attached = c._session_token]

Init ==
  /\ mongoInit \in BOOLEAN
  /\ create_patients \in BOOLEAN
  /\ file \in Files
  /\ clock = 1
  /\ faults = 0
  /\ primary = <<>>
  /\ dlq = <<>>
  /\ audit = <<>>
  /\ ingest = [i \in IngestRuns |-> IdleIngest]
  /\ submit = [s \in SubmitRuns |-> IdleSubmit]
  /\ openmrs = IdleClient

Tick ==
  /\ clock < MaxClock
  /\ clock' = clock + 1
  /\ UNCHANGED <<openmrs, mongoInit, create_patients, file, faults, primary, dlq, audit, ingest, submit>>

LoopPc(pos) == IF pos > Len(file) THEN "audit" ELSE "loop"

\* variant of PathChecked: a path that is not a regular file is read as an
\* empty file
PathCheckedLenient(run, kind) ==
  [run EXCEPT !.path = kind, !.pc = LoopPc(1), !.pos = 1]

\* the two checks of the path at the head of ingest_from_file, before the
\* batch id, the statistics and the reader exist
PathChecked(run, kind) ==
  CASE kind = "missing"   -> [run EXCEPT !.path = kind, !.pc = "done", !.result = "FileNotFoundError"]
    [] kind = "directory" -> [run EXCEPT !.path = kind, !.pc = "done", !.result = "ValueError"]
    [] OTHER              -> [run EXCEPT !.path = kind, !.pc = LoopPc(1), !.pos = 1]

\* ingest_from_file up to the start of the record loop
IngestStart(i) ==
  /\ ingest[i].pc = "idle"
  /\ \A j \in 1..(i - 1) : ingest[j].pc # "idle"
  /\ \E kind \in PathKinds :
       ingest' = [ingest EXCEPT ![i] = PathChecked(@, kind)]
  /\ UNCHANGED <<openmrs, mongoInit, create_patients, file, clock, faults, primary, dlq, audit, submit>>

\* the reader raises on a line it cannot parse: the outer handler ends the loop
IngestReaderError(i) ==
  /\ ingest[i].pc = "loop"
  /\ IsBadLine(file[ingest[i].pos])
  /\ ingest' = [ingest EXCEPT ![i].pc = "audit",
                              ![i].stats.errors = Append(@, "Ingestion failed")]
  /\ UNCHANGED <<openmrs, mongoInit, create_patients, file, clock, faults, primary, dlq, audit, submit>>

\* variant: a validation failure ends the record loop
IngestInvalidAborts(i) ==
  /\ ingest[i].pc = "loop"
  /\ ~IsBadLine(file[ingest[i].pos])
  /\ ~RawValid(file[ingest[i].pos])
  /\ ingest' = [ingest EXCEPT ![i].pc = "audit",
                              ![i].stats.total_read = @ + 1,
                              ![i].stats.invalid_records = @ + 1,
                              ![i].stats.errors = Append(@, "Validation error")]
  /\ UNCHANGED <<openmrs, mongoInit, create_patients, file, clock, faults, primary, dlq, audit, submit>>

\* one iteration of the record loop on a record that fails validation
IngestInvalid(i) ==
  /\ ingest[i].pc = "loop"
  /\ ~IsBadLine(file[ingest[i].pos])
  /\ ~RawValid(file[ingest[i].pos])
  /\ ingest' = [ingest EXCEPT ![i].pos = @ + 1,
                              ![i].pc = LoopPc(ingest[i].pos + 1),
                              ![i].stats.total_read = @ + 1,
                              ![i].stats.invalid_records = @ + 1,
                              ![i].stats.errors = Append(@, "Validation error")]
  /\ UNCHANGED <<openmrs, mongoInit, create_patients, file, clock, faults, primary, dlq, audit, submit>>

\* variant of IngestValid: an upsert the store refused is tried again, the
\* loop staying on the record
IngestValidRetries(i) ==
  /\ ingest[i].pc = "loop"
  /\ ~IsBadLine(file[ingest[i].pos])
  /\ RawValid(file[ingest[i].pos])
  /\ LET record == _validate_and_transform(file[ingest[i].pos])
         read   == [ingest EXCEPT ![i].pos = @ + 1,
                                  ![i].pc = LoopPc(ingest[i].pos + 1),
                                  ![i].stats.total_read = @ + 1,
                                  ![i].stats.valid_records = @ + 1]
     IN  \E outcome \in StoreOutcomes :
           /\ faults' = FaultsAfter(outcome)
           /\ CASE outcome = "ok" ->
                     /\ primary' = UpsertedColl(primary, record, IngestBatch(i), clock)
                     /\ ingest' = IF UpsertReturn(primary, record, IngestBatch(i), clock)
                                  THEN [read EXCEPT ![i].stats.persisted_records = @ + 1]
                                  ELSE read
                [] OTHER ->
                     /\ primary' = primary
                     /\ ingest' = [ingest EXCEPT ![i].store_errors = @ + 1]
  /\ UNCHANGED <<openmrs, mongoInit, create_patients, file, clock, dlq, audit, submit>>

\* one iteration of the record loop on a record that validates
IngestValid(i) ==
  /\ ingest[i].pc = "loop"
  /\ ~IsBadLine(file[ingest[i].pos])
  /\ RawValid(file[ingest[i].pos])
  /\ LET record == _validate_and_transform(file[ingest[i].pos])
         read   == [ingest EXCEPT ![i].pos = @ + 1,
                                  ![i].pc = LoopPc(ingest[i].pos + 1),
                                  ![i].stats.total_read = @ + 1,
                                  ![i].stats.valid_records = @ + 1]
     IN  \E outcome \in StoreOutcomes :
           /\ faults' = FaultsAfter(outcome)
           /\ CASE outcome = "ok" ->
                     /\ primary' = UpsertedColl(primary, record, IngestBatch(i), clock)
                     /\ ingest' = IF UpsertReturn(primary, record, IngestBatch(i), clock)
                                  THEN [read EXCEPT ![i].stats.persisted_records = @ + 1]
                                  ELSE read
                [] outcome = "PyMongoError" ->
                     /\ primary' = primary
                     /\ ingest' = [read EXCEPT ![i].store_errors = @ + 1]
                [] OTHER ->
                     /\ primary' = primary
                     /\ ingest' = [read EXCEPT ![i].store_errors = @ + 1,
                                               ![i].stats.invalid_records = @ + 1,
                                               ![i].stats.errors = Append(@, "Processing error")]
  /\ UNCHANGED <<openmrs, mongoInit, create_patients, file, clock, dlq, audit, submit>>

\* log_audit_event("ingestion_completed", stats, batch_id) and the return
IngestAudit(i) ==
  /\ ingest[i].pc = "audit"
  /\ \E outcome \in StoreOutcomes :
       /\ faults' = FaultsAfter(outcome)
       /\ audit' = IF outcome = "ok"
                   THEN Append(audit, AuditDoc("ingestion_completed", ingest[i].stats,
                                               IngestBatch(i), clock))
                   ELSE audit
       /\ ingest' = [ingest EXCEPT ![i].pc = "done",
                                   ![i].result = IF outcome = "RuntimeError"
                                                 THEN "RuntimeError" ELSE "stats"]
  /\ UNCHANGED <<openmrs, mongoInit, create_patients, file, clock, primary, dlq, submit>>

\* submit_pending_records up to the start of the loop: get_pending_records
SubmitStart(s, limit) ==
  /\ submit[s].pc = "idle"
  /\ \A r \in 1..(s - 1) : submit[r].pc # "idle"
  /\ \E outcome \in StoreOutcomes :
       /\ faults' = FaultsAfter(outcome)
       /\ LET pending == IF outcome = "ok" THEN PendingOf(primary, limit) ELSE <<>>
          IN  submit' = [submit EXCEPT ![s] =
                IF outcome = "RuntimeError"
                THEN [@ EXCEPT !.pc = "done", !.limit = limit, !.result = "RuntimeError"]
                ELSE [@ EXCEPT !.pc = IF Len(pending) = 0 THEN "audit" ELSE "loop",
                               !.limit = limit, !.pending = pending, !.idx = 1]]
  /\ UNCHANGED <<openmrs, mongoInit, create_patients, file, clock, primary, dlq, audit, ingest>>

AfterRecord(run) ==
  [run EXCEPT !.idx = @ + 1,
              !.pc = IF run.idx + 1 > Len(run.pending) THEN "audit" ELSE "loop"]

CurrentDoc(s) == submit[s].pending[submit[s].idx]

\* mark_submitted as the loop calls it: the write, or a logged PyMongoError
MarkStep(key, success, error_msg) ==
  \E outcome \in StoreOutcomes :
    /\ faults' = FaultsAfter(outcome)
    /\ primary' = IF outcome = "ok"
                  THEN MarkedColl(primary, key, success, error_msg, clock)
                  ELSE primary

\* one loop iteration in which submit_tm2_record returns True
SubmitSuccess(s) ==
  /\ submit[s].pc = "loop"
  /\ "True" \in SubmitOutcomes
  /\ MarkStep(CurrentDoc(s).idempotency_key, TRUE, None)
  /\ submit' = [submit EXCEPT ![s] =
       AfterRecord([@ EXCEPT !.stats.attempted = @ + 1,
                             !.stats.successful = @ + 1])]
  /\ UNCHANGED <<openmrs, mongoInit, create_patients, file, clock, dlq, audit, ingest>>

\* one loop iteration in which submit_tm2_record returns False
SubmitFailure(s) ==
  /\ submit[s].pc = "loop"
  /\ "False" \in SubmitOutcomes
  /\ MarkStep(CurrentDoc(s).idempotency_key, FALSE, SubmissionFailedMsg)
  /\ submit' = [submit EXCEPT ![s] =
       AfterRecord([@ EXCEPT !.stats.attempted = @ + 1,
                             !.stats.failed = @ + 1,
                             !.stats.errors = Append(@, SubmissionFailedMsg),
                             !.error_msg = SubmissionFailedMsg])]
  /\ UNCHANGED <<openmrs, mongoInit, create_patients, file, clock, dlq, audit, ingest>>

\* variant of SubmitRaise: the threshold is compared with the failures of the
\* record in hand, of which a run has one
SubmitRaisePerRecord(s) ==
  /\ submit[s].pc = "loop"
  /\ "raise" \in SubmitOutcomes
  /\ MarkStep(CurrentDoc(s).idempotency_key, FALSE, SubmissionErrorMsg)
  /\ LET counted == [submit[s] EXCEPT !.stats.attempted = @ + 1,
                                      !.stats.failed = @ + 1,
                                      !.stats.errors = Append(@, SubmissionErrorMsg),
                                      !.error_msg = SubmissionErrorMsg]
     IN  submit' = [submit EXCEPT ![s] =
           IF 1 > DlqThreshold
           THEN [counted EXCEPT !.pc = "dlq_insert"]
           ELSE AfterRecord(counted)]
  /\ UNCHANGED <<openmrs, mongoInit, create_patients, file, clock, dlq, audit, ingest>>

\* one loop iteration in which the try body raises: the handler marks the
\* record failed and, past the threshold, goes on to move_to_dlq
SubmitRaise(s) ==
  /\ submit[s].pc = "loop"
  /\ "raise" \in SubmitOutcomes
  /\ MarkStep(CurrentDoc(s).idempotency_key, FALSE, SubmissionErrorMsg)
  /\ LET counted == [submit[s] EXCEPT !.stats.attempted = @ + 1,
                                      !.stats.failed = @ + 1,
                                      !.stats.errors = Append(@, SubmissionErrorMsg),
                                      !.error_msg = SubmissionErrorMsg]
     IN  submit' = [submit EXCEPT ![s] =
           IF counted.stats.failed > DlqThreshold
           THEN [counted EXCEPT !.pc = "dlq_insert"]
           ELSE AfterRecord(counted)]
  /\ UNCHANGED <<openmrs, mongoInit, create_patients, file, clock, dlq, audit, ingest>>

\* variant of DlqInsert: the delete follows the insert whatever the insert did
DlqInsertDeletesAnyway(s) ==
  /\ submit[s].pc = "dlq_insert"
  /\ \E outcome \in StoreOutcomes :
       /\ faults' = FaultsAfter(outcome)
       /\ dlq' = IF outcome = "ok"
                 THEN Append(dlq, DlqDoc(CurrentDoc(s).data, submit[s].error_msg,
                                         SubmitBatch(s), clock))
                 ELSE dlq
       /\ submit' = [submit EXCEPT ![s].pc = "dlq_delete"]
  /\ UNCHANGED <<openmrs, mongoInit, create_patients, file, clock, primary, audit, ingest>>

\* move_to_dlq, first write: dlq_collection.insert_one(dlq_doc)
DlqInsert(s) ==
  /\ submit[s].pc = "dlq_insert"
  /\ \E outcome \in StoreOutcomes :
       /\ faults' = FaultsAfter(outcome)
       /\ IF outcome = "ok"
          THEN /\ dlq' = Append(dlq, DlqDoc(CurrentDoc(s).data, submit[s].error_msg,
                                            SubmitBatch(s), clock))
               /\ submit' = [submit EXCEPT ![s].pc = "dlq_delete"]
          ELSE /\ dlq' = dlq
               /\ submit' = [submit EXCEPT ![s] = AfterRecord(@)]
  /\ UNCHANGED <<openmrs, mongoInit, create_patients, file, clock, primary, audit, ingest>>

\* move_to_dlq, second write: primary_collection.delete_one(by key)
DlqDelete(s) ==
  /\ submit[s].pc = "dlq_delete"
  /\ \E outcome \in StoreOutcomes :
       /\ faults' = FaultsAfter(outcome)
       /\ primary' = IF outcome = "ok"
                     THEN DeletedColl(primary, CurrentDoc(s).data)
                     ELSE primary
  /\ submit' = [submit EXCEPT ![s] = AfterRecord(@)]
  /\ UNCHANGED <<openmrs, mongoInit, create_patients, file, clock, dlq, audit, ingest>>

\* log_audit_event("submission_completed", stats, batch_id) and the return
SubmitAudit(s) ==
  /\ submit[s].pc = "audit"
  /\ \E outcome \in StoreOutcomes :
       /\ faults' = FaultsAfter(outcome)
       /\ audit' = IF outcome = "ok"
                   THEN Append(audit, AuditDoc("submission_completed", submit[s].stats,
                                               SubmitBatch(s), clock))
                   ELSE audit
       /\ submit' = [submit EXCEPT ![s].pc = "done",
                                   ![s].result = IF outcome = "RuntimeError"
                                                 THEN "RuntimeError" ELSE "stats"]
  /\ UNCHANGED <<openmrs, mongoInit, create_patients, file, clock, primary, dlq, ingest>>

\* variant of ClientEntered: the subject is created whatever create_patients says
ClientEnteredCreatesAnyway(supplied) ==
  LET entered == [openmrs EXCEPT !.calls = @ + 1, !.step = "none",
                                 !.patient_uuid = IF supplied THEN UuidOf("patient")
                                                  ELSE None,
                                 !.encounter_uuid = None, !.obs_uuid = None,
                                 !.attempt = 0, !.sends = 0, !.reauths = 0,
                                 !.kinds = {}, !.sent = NoneSent, !.result = "none",
                                 !.had_token = FALSE, !.auths = 0,
                                 !.obtained = None, !.attached = None]
  IN  IF ~supplied THEN CallStart(entered, "patient")
      ELSE CallStart(entered, "encounter")

\* the client after submit_tm2_record(record, patient_uuid) is entered, up to
\* the first create_* call: the subject is pre-supplied, or created when
\* create_patients is on, or the record is skipped
ClientEntered(supplied) ==
  LET entered == [openmrs EXCEPT !.calls = @ + 1, !.step = "none",
                                 !.patient_uuid = IF supplied THEN UuidOf("patient")
                                                  ELSE None,
                                 !.encounter_uuid = None, !.obs_uuid = None,
                                 !.attempt = 0, !.sends = 0, !.reauths = 0,
                                 !.kinds = {}, !.sent = NoneSent, !.result = "none",
                                 !.had_token = FALSE, !.auths = 0,
                                 !.obtained = None, !.attached = None]
  IN  IF ~supplied /\ create_patients THEN CallStart(entered, "patient")
      ELSE IF ~supplied THEN Finish(entered, "False")
      ELSE CallStart(entered, "encounter")

\* a call of submit_tm2_record on its own
SubmitTm2Record(supplied) ==
  /\ openmrs.pc \in {"idle", "done"}
  /\ openmrs.calls < MaxClientCalls
  /\ openmrs' = ClientEntered(supplied)
  /\ UNCHANGED <<mongoInit, create_patients, file, clock, faults, primary, dlq, audit,
                 ingest, submit>>

\* variant of EnsureSession: the request is made with whatever token is held
EnsureSessionSkipsAuth ==
  /\ openmrs.pc = "session"
  /\ openmrs' = [openmrs EXCEPT !.had_token = (openmrs._session_token # None),
                                !.auths = 0, !.obtained = None,
                                !.pc = "request", !.attempt = 1]
  /\ UNCHANGED <<mongoInit, create_patients, file, clock, faults, primary, dlq, audit,
                 ingest, submit>>

\* create_*: "if not self._session_token: await self._authenticate()", then
\* the first attempt of _make_request begins
EnsureSession ==
  /\ openmrs.pc = "session"
  /\ \E granted \in BOOLEAN :
       LET entered == [openmrs EXCEPT !.had_token = (openmrs._session_token # None),
                                      !.auths = 0, !.obtained = None]
       IN  openmrs' = [(IF entered._session_token = None
                        THEN _authenticate(entered, granted) ELSE entered)
                       EXCEPT !.pc = "request", !.attempt = 1]
  /\ UNCHANGED <<mongoInit, create_patients, file, clock, faults, primary, dlq, audit,
                 ingest, submit>>

\* one attempt of _make_request up to its first response: ValueError without
\* base_url (not retried, caught by create_*), else the request is sent
MakeRequest ==
  /\ openmrs.pc = "request"
  /\ IF openmrs.base_url = None
     THEN openmrs' = Returned(openmrs, None)
     ELSE \E resp \in Responses :
            LET c == Exchanged(openmrs, resp)
            IN  openmrs' = CASE resp = "uuid"    -> Returned(c, UuidOf(c.step))
                             [] resp = "no_uuid" -> Returned(c, None)
                             [] resp = "401"     -> [c EXCEPT !.pc = "reauth"]
                             [] OTHER            -> Retried(c)
  /\ UNCHANGED <<mongoInit, create_patients, file, clock, faults, primary, dlq, audit,
                 ingest, submit>>

\* the 401 handler: the token is cleared and _authenticate called; without a
\* new token the HTTPStatusError is raised again
Reauthenticate ==
  /\ openmrs.pc = "reauth"
  /\ \E granted \in BOOLEAN :
       LET c == _authenticate([openmrs EXCEPT !._session_token = None,
                                              !.reauths = @ + 1], granted)
       IN  openmrs' = IF c._session_token # None THEN [c EXCEPT !.pc = "resend"]
                      ELSE Retried(c)
  /\ UNCHANGED <<mongoInit, create_patients, file, clock, faults, primary, dlq, audit,
                 ingest, submit>>

\* the 401 handler sends the request again with the new token; whatever it
\* raises leaves the attempt
Resend ==
  /\ openmrs.pc = "resend"
  /\ \E resp \in Responses :
       LET c == Exchanged(openmrs, resp)
       IN  openmrs' = CASE resp = "uuid"    -> Returned(c, UuidOf(c.step))
                        [] resp = "no_uuid" -> Returned(c, None)
                        [] OTHER            -> Retried(c)
  /\ UNCHANGED <<mongoInit, create_patients, file, clock, faults, primary, dlq, audit,
                 ingest, submit>>

\* ---------------------------------------------------------- specifications
IngestBody(i) ==
  \/ IngestReaderError(i)
  \/ IngestInvalid(i)
  \/ IngestValid(i)
  \/ IngestAudit(i)

SubmitBody(s) ==
  \/ SubmitSuccess(s)
  \/ SubmitFailure(s)
  \/ SubmitRaise(s)
  \/ DlqInsert(s)
  \/ DlqDelete(s)
  \/ SubmitAudit(s)

\* no invocation is in progress
Quiet ==
  /\ \A i \in IngestRuns : ingest[i].pc \in {"idle", "done"}
  /\ \A s \in SubmitRuns : submit[s].pc \in {"idle", "done"}

Started ==
    Cardinality({i \in IngestRuns : ingest[i].pc # "idle"})
  + Cardinality({s \in SubmitRuns : submit[s].pc # "idle"})

\* Triggers fired one after the other, MaxRuns of them: a run starts when no
\* run is in progress; submission uses the default page size
MayStart == Quiet /\ Started < MaxRuns

\* the Python string "" (a string is a sequence of characters)
EmptyString == <<>>

\* what trigger_ingestion returns once the background task is added
IngestionTriggerResponse ==
  [batch_id |-> EmptyString, status |-> "started", stats |-> <<>>]

\* what trigger_submission returns once the background task is added
SubmissionTriggerResponse ==
  [batch_id |-> EmptyString, status |-> "started", stats |-> <<>>]

TriggerIngest(i) == MayStart /\ IngestStart(i)

TriggerSubmit(s) == MayStart /\ SubmitStart(s, DefaultLimit)

Next ==
  \/ Tick
  \/ \E i \in IngestRuns : TriggerIngest(i) \/ IngestBody(i)
  \/ \E s \in SubmitRuns : TriggerSubmit(s) \/ SubmitBody(s)

Spec == Init /\ [][Next]_vars

\* Overlapping ingestion triggers on a short file: the runs interleave
\* between their store calls
InitIngest ==
  /\ Init
  /\ Len(file) <= MaxOverlapFileLen

NextIngest ==
  \/ Tick
  \/ \E i \in IngestRuns : IngestStart(i) \/ IngestBody(i)

SpecIngest == InitIngest /\ [][NextIngest]_vars

\* One ingestion overlapping one submission, any page size
TriggerSubmitAnyLimit(s) == \E limit \in Limits : SubmitStart(s, limit)

NextConc ==
  \/ Tick
  \/ IngestStart(1) \/ IngestBody(1)
  \/ TriggerSubmitAnyLimit(1) \/ SubmitBody(1)

SpecConc == Init /\ [][NextConc]_vars

\* One ingestion and two submissions of a short file, all overlapping, default
\* page size, the clock standing still; the second row of the first file
\* repeats the key of its first row, and a file this short never takes a run past the dead-letter
\* threshold, so move_to_dlq has no step here
SubmitsTemplates ==
  { <<RowA, RowA2, RowB, RowC, RowD>>,
    <<RowNoId, BadLine, RowA, RowB, RowC>> }

SubmitsFiles == { SubSeq(T, 1, n) : T \in SubmitsTemplates, n \in 0..MaxSubmitsFileLen }

InitSubmits ==
  /\ mongoInit \in BOOLEAN
  /\ create_patients \in BOOLEAN
  /\ file \in SubmitsFiles
  /\ clock = 1
  /\ faults = 0
  /\ primary = <<>>
  /\ dlq = <<>>
  /\ audit = <<>>
  /\ ingest = [i \in IngestRuns |-> IdleIngest]
  /\ submit = [s \in SubmitRuns |-> IdleSubmit]
  /\ openmrs = IdleClient

TriggerSubmitDefault(s) == SubmitStart(s, DefaultLimit)

SubmitLoop(s) ==
  \/ SubmitSuccess(s)
  \/ SubmitFailure(s)
  \/ SubmitRaise(s)
  \/ SubmitAudit(s)

NextSubmits ==
  \/ IngestStart(1) \/ IngestBody(1)
  \/ \E s \in SubmitRuns : TriggerSubmitDefault(s) \/ SubmitLoop(s)

SpecSubmits == InitSubmits /\ [][NextSubmits]_vars

\* ---------------------------------------- a submission whose marks can raise
\* one loop iteration in which mark_submitted raises something other than a
\* PyMongoError: the counters of the branch taken are already incremented,
\* the handler counts a failure on top and marks again; a second raise leaves
\* submit_pending_records
SubmitMarkRaises(s) ==
  /\ submit[s].pc = "loop"
  /\ \E success \in {o \in SubmitOutcomes : o # "raise"} :
       LET branch  == IF success = "True"
                      THEN [submit[s] EXCEPT !.stats.attempted = @ + 1,
                                             !.stats.successful = @ + 1]
                      ELSE [submit[s] EXCEPT !.stats.attempted = @ + 1,
                                             !.stats.failed = @ + 1,
                                             !.stats.errors = Append(@, SubmissionFailedMsg),
                                             !.error_msg = SubmissionFailedMsg]
           counted == [branch EXCEPT !.stats.failed = @ + 1,
                                     !.stats.errors = Append(@, SubmissionErrorMsg),
                                     !.error_msg = SubmissionErrorMsg]
       IN  \/ /\ MarkStep(CurrentDoc(s).idempotency_key, FALSE, SubmissionErrorMsg)
              /\ submit' = [submit EXCEPT ![s] =
                   IF counted.stats.failed > DlqThreshold
                   THEN [counted EXCEPT !.pc = "dlq_insert"]
                   ELSE AfterRecord(counted)]
           \/ /\ UNCHANGED <<faults, primary>>
              /\ submit' = [submit EXCEPT ![s] =
                   [counted EXCEPT !.pc = "done", !.result = "Exception"]]
  /\ UNCHANGED <<openmrs, mongoInit, create_patients, file, clock, dlq, audit, ingest>>

\* the files ingested before that submission
MarksTemplates ==
  { <<RowA, RowB, RowC, RowD>>,
    <<RowNoId, BadLine, RowA, RowB>> }

MarksFiles == { SubSeq(T, 1, n) : T \in MarksTemplates, n \in 0..MaxMarksFileLen }

InitMarks ==
  /\ mongoInit \in BOOLEAN
  /\ create_patients \in BOOLEAN
  /\ file \in MarksFiles
  /\ clock = 1
  /\ faults = 0
  /\ primary = <<>>
  /\ dlq = <<>>
  /\ audit = <<>>
  /\ ingest = [i \in IngestRuns |-> IdleIngest]
  /\ submit = [s \in SubmitRuns |-> IdleSubmit]
  /\ openmrs = IdleClient

NextMarks ==
  \/ IngestStart(1) \/ IngestBody(1)
  \/ TriggerSubmitDefault(1) \/ SubmitBody(1)
  \/ SubmitMarkRaises(1)

SpecMarks == InitMarks /\ [][NextMarks]_vars

\* ------------------------------- a submission run that drives the client
\* "success = await self.openmrs.submit_tm2_record(record)": the loop enters
\* the client for the record in hand, without a patient_uuid
SubmitCallsClient(s) ==
  /\ submit[s].pc = "loop"
  /\ openmrs.pc = "idle"
  /\ openmrs.calls = submit[s].idx - 1
  /\ openmrs' = ClientEntered(FALSE)
  /\ UNCHANGED <<mongoInit, create_patients, file, clock, faults, primary, dlq, audit,
                 ingest, submit>>

\* the awaited call has returned: the branch of the value it returned, as in
\* SubmitSuccess and SubmitFailure; the client keeps its settings and its
\* session token for the next record
SubmitClientReturned(s) ==
  /\ submit[s].pc = "loop"
  /\ openmrs.pc = "done"
  /\ openmrs.calls = submit[s].idx
  /\ IF openmrs.result = "True"
     THEN /\ MarkStep(CurrentDoc(s).idempotency_key, TRUE, None)
          /\ submit' = [submit EXCEPT ![s] =
               AfterRecord([@ EXCEPT !.stats.attempted = @ + 1,
                                     !.stats.successful = @ + 1])]
     ELSE /\ MarkStep(CurrentDoc(s).idempotency_key, FALSE, SubmissionFailedMsg)
          /\ submit' = [submit EXCEPT ![s] =
               AfterRecord([@ EXCEPT !.stats.attempted = @ + 1,
                                     !.stats.failed = @ + 1,
                                     !.stats.errors = Append(@, SubmissionFailedMsg),
                                     !.error_msg = SubmissionFailedMsg])]
  /\ openmrs' = [IdleClient EXCEPT !.base_url = openmrs.base_url,
                                   !.credentials = openmrs.credentials,
                                   !.max_retries = openmrs.max_retries,
                                   !._session_token = openmrs._session_token,
                                   !.calls = openmrs.calls]
  /\ UNCHANGED <<mongoInit, create_patients, file, clock, dlq, audit, ingest>>

\* the files ingested before the run
PipelineFiles == { SubSeq(T, 1, n) : T \in MarksTemplates, n \in 0..MaxPipelineFileLen }

InitPipeline ==
  /\ mongoInit = TRUE
  /\ create_patients \in BOOLEAN
  /\ file \in PipelineFiles
  /\ clock = 1
  /\ faults = 0
  /\ primary = <<>>
  /\ dlq = <<>>
  /\ audit = <<>>
  /\ ingest = [i \in IngestRuns |-> IdleIngest]
  /\ submit = [s \in SubmitRuns |-> IdleSubmit]
  /\ \E cred \in BOOLEAN :
       openmrs = [IdleClient EXCEPT !.base_url = "http://openmrs", !.credentials = cred]

NextPipeline ==
  \/ IngestStart(1) \/ IngestBody(1)
  \/ Quiet /\ TriggerSubmitDefault(1)
  \/ SubmitCallsClient(1)
  \/ EnsureSession \/ MakeRequest \/ Reauthenticate \/ Resend
  \/ SubmitClientReturned(1)
  \/ SubmitAudit(1)

SpecPipeline == InitPipeline /\ [][NextPipeline]_vars

\* submit_tm2_record calls made one after the other on one client, under
\* every setting of the client and every answer of the registry
InitClient ==
  /\ mongoInit = TRUE
  /\ create_patients \in BOOLEAN
  /\ file = <<>>
  /\ clock = 1
  /\ faults = 0
  /\ primary = <<>>
  /\ dlq = <<>>
  /\ audit = <<>>
  /\ ingest = [i \in IngestRuns |-> IdleIngest]
  /\ submit = [s \in SubmitRuns |-> IdleSubmit]
  /\ \E url \in {None, "http://openmrs"}, cred \in BOOLEAN, m \in MaxRetriesChoices :
       openmrs = [IdleClient EXCEPT !.base_url = url, !.credentials = cred,
                                    !.max_retries = m]

NextClient ==
  \/ \E supplied \in BOOLEAN : SubmitTm2Record(supplied)
  \/ EnsureSession
  \/ MakeRequest
  \/ Reauthenticate
  \/ Resend

SpecClient == InitClient /\ [][NextClient]_vars

\* One ingestion of a short file drawn from every kind of raw record
InitRecord ==
  /\ mongoInit = TRUE
  /\ create_patients = FALSE
  /\ file \in RecordFiles
  /\ clock = 1
  /\ faults = 0
  /\ primary = <<>>
  /\ dlq = <<>>
  /\ audit = <<>>
  /\ ingest = [i \in IngestRuns |-> IdleIngest]
  /\ submit = [s \in SubmitRuns |-> IdleSubmit]
  /\ openmrs = IdleClient

NextRecord == IngestStart(1) \/ IngestBody(1)

SpecRecord == InitRecord /\ [][NextRecord]_vars

\* ----------------------------------------------------- auxiliary notions
KeySet(coll) == { coll[k].idempotency_key : k \in 1..Len(coll) }

UniqueKeys(coll) ==
  \A j, k \in 1..Len(coll) : coll[j].idempotency_key = coll[k].idempotency_key => j = k

\* the records the reader yields: the lines before the first unparseable one
Readable(f) ==
  IF \E k \in 1..Len(f) : IsBadLine(f[k])
  THEN SubSeq(f, 1, (CHOOSE k \in 1..Len(f) :
                       IsBadLine(f[k]) /\ \A j \in 1..(k - 1) : ~IsBadLine(f[j])) - 1)
  ELSE f

ValidRecords(f) == SelectSeq(Readable(f), RawValid)

KeysOfFile(f) ==
  { compute_idempotency_key(_validate_and_transform(ValidRecords(f)[k])) :
      k \in 1..Len(ValidRecords(f)) }

\* the run got past the file checks of ingest_from_file
PastChecks(i) ==
  \/ ingest[i].pc \in {"loop", "audit"}
  \/ ingest[i].pc = "done" /\ ingest[i].result \in {"stats", "RuntimeError"}

\* the run returned its stats and none of its store calls failed
CleanlyDone(i) ==
  /\ ingest[i].pc = "done"
  /\ ingest[i].result = "stats"
  /\ ingest[i].store_errors = 0

Contents(coll) == [k \in 1..Len(coll) |-> <<coll[k].idempotency_key, coll[k].data>>]

\* the primary collection after one ingestion of the file into an empty store
RECURSIVE IngestedFrom(_, _)
IngestedFrom(coll, records) ==
  IF records = <<>> THEN coll
  ELSE IngestedFrom(UpsertedColl(coll, _validate_and_transform(Head(records)),
                                 IngestBatch(1), 1),
                    Tail(records))

SequentialContents(f) == Contents(IngestedFrom(<<>>, ValidRecords(f)))

\* ------------------------------------------------------------------ claims

\* C1  Ingesting the same file again is idempotent on the primary collection:
\* there is never more than one document per idempotency key, and once one
\* ingestion of the file has completed with every upsert accepted, the stored
\* keys are exactly the keys of the file's valid records and no later step of
\* another ingestion of that file adds a document or changes the key set.
C1_OneDocPerKey ==
  /\ [](/\ UniqueKeys(primary)
        /\ (\E i \in IngestRuns : CleanlyDone(i)) =>
              /\ KeySet(primary) = KeysOfFile(file)
              /\ Len(primary) = Cardinality(KeysOfFile(file)))
  /\ [][(\E i \in IngestRuns : CleanlyDone(i)) =>
          /\ Len(primary') = Len(primary)
          /\ KeySet(primary') = KeySet(primary)]_vars

\* C1 witness: two ingestions of a file with a repeated key have both
\* completed, the second having written nothing new
C1_Witness ==
  /\ CleanlyDone(1) /\ CleanlyDone(2)
  /\ ingest[1].stats.valid_records = 2
  /\ ingest[2].stats.valid_records = 2
  /\ Len(primary) = 1

\* C5  Overlapping ingestions of the same file, their upserts interleaved in
\* any order, never leave two documents for one key, and when all of them
\* have completed with every upsert accepted the primary collection holds
\* the keys and data one sequential ingestion of the file would leave.
C5_ConcurrentSameAsSequential ==
  /\ UniqueKeys(primary)
  /\ LET ran == { i \in IngestRuns : PastChecks(i) }
     IN  (Cardinality(ran) >= 2 /\ \A i \in ran : CleanlyDone(i))
           => Contents(primary) = SequentialContents(file)

\* C5 witness: two interleaved ingestions of a file that repeats a key with
\* other demographics have completed, and time passed between their writes
C5_Witness ==
  /\ CleanlyDone(1) /\ CleanlyDone(2)
  /\ ingest[1].stats.valid_records = 2
  /\ Len(primary) = 1
  /\ primary[1].batch_id = IngestBatch(1)
  /\ primary[1].first_seen < primary[1].updated_at

StatusOf(coll, key) == coll[IndexOfKey(coll, key)].status

AllowedStatusChange(from, to) ==
  \/ from = to
  \/ from = "processed" /\ to \in {"submitted", "submission_failed"}
  \/ from = "submission_failed" /\ to = "processed"

C2_StatusNeverMovesBackward ==
  [][\A key \in KeySet(primary) \cap KeySet(primary') :
       AllowedStatusChange(StatusOf(primary, key), StatusOf(primary', key))]_vars

\* C3  A stored document is in the result of get_pending_records (limit at
\* least the size of the collection) exactly as long as no successful
\* mark_submitted has been applied to it.
InPendingResult(doc) ==
  \E k \in 1..Len(PendingOf(primary, Len(primary))) :
    PendingOf(primary, Len(primary))[k].idempotency_key = doc.idempotency_key

C3_PendingUntilMarkedSubmitted ==
  \A k \in 1..Len(primary) :
    InPendingResult(primary[k]) <=> primary[k].submitted_at = NoTime

\* C4  With a working store, when a record's failure takes the run's failure
\* counter past the threshold, the record is out of the primary collection
\* and in the dead-letter collection with that failure's message by the time
\* the loop moves to the next record, whichever way the failure was reported.
RecordDone(s) == submit'[s].idx = submit[s].idx + 1

InDlq(coll, s, error_msg) ==
  \E k \in 1..Len(coll) :
    /\ coll[k].original_record = CurrentDoc(s).data
    /\ coll[k].batch_id = SubmitBatch(s)
    /\ coll[k].error_message = error_msg

C4_FailurePastThresholdIsDeadLettered ==
  [][\A s \in SubmitRuns :
       (/\ RecordDone(s)
        /\ faults' = 0
        /\ submit'[s].stats.failed > DlqThreshold
        /\ \/ submit[s].pc \in {"dlq_insert", "dlq_delete"}
           \/ submit'[s].stats.failed = submit[s].stats.failed + 1)
       => /\ CurrentDoc(s).idempotency_key \notin KeySet(primary')
          /\ InDlq(dlq', s, submit'[s].error_msg)]_vars

\* C6  A document marked submission_failed is fetched again by the next
\* get_pending_records (limit at least the size of the collection).
C6_FailedRecordIsFetchedAgain ==
  [][\A s \in SubmitRuns :
       (/\ submit[s].pc = "idle"
        /\ submit'[s].pc \in {"loop", "audit"}
        /\ faults' = faults
        /\ submit'[s].limit >= Len(primary))
       => \A k \in 1..Len(primary) :
            (primary[k].status = "submission_failed" /\ primary[k].submitted_at = NoTime)
              => \E j \in 1..Len(submit'[s].pending) :
                   submit'[s].pending[j].idempotency_key = primary[k].idempotency_key]_vars

\* C7  When move_to_dlq returns, the record is either dead-lettered and gone
\* from the primary collection, or not dead-lettered and still in the
\* primary collection.
C7_MoveToDlqIsAllOrNothing ==
  [][\A s \in SubmitRuns :
       (/\ submit[s].pc \in {"dlq_insert", "dlq_delete"}
        /\ submit'[s].pc \notin {"dlq_insert", "dlq_delete"})
       => LET inDlq     == InDlq(dlq', s, submit[s].error_msg)
              inPrimary == CurrentDoc(s).idempotency_key \in KeySet(primary')
          IN  (inDlq /\ ~inPrimary) \/ (~inDlq /\ inPrimary)]_vars

\* C9  An ingestion that got past the file checks returns its stats and has
\* written exactly one ingestion_completed audit event carrying them.
AuditEventsOf(event_type, batch_id) ==
  { k \in 1..Len(audit) : audit[k].event_type = event_type /\ audit[k].batch_id = batch_id }

C9_IngestAlwaysAuditsAndReturns ==
  \A i \in IngestRuns :
    (PastChecks(i) /\ ingest[i].pc = "done")
      => /\ ingest[i].result = "stats"
         /\ Cardinality(AuditEventsOf("ingestion_completed", IngestBatch(i))) = 1
         /\ \A k \in AuditEventsOf("ingestion_completed", IngestBatch(i)) :
              audit[k].details = ingest[i].stats

\* C10  A submission run that has ended has written exactly one
\* submission_completed audit event carrying its stats.
C10_SubmitAlwaysAudits ==
  \A s \in SubmitRuns :
    submit[s].pc = "done"
      => /\ Cardinality(AuditEventsOf("submission_completed", SubmitBatch(s))) = 1
         /\ \A k \in AuditEventsOf("submission_completed", SubmitBatch(s)) :
              audit[k].details = submit[s].stats

\* C11  In a submission run whose mark_submitted writes reach the store, the
\* document of a record the client reported success for becomes submitted
\* with submitted_at set, the document of a record that failed becomes
\* submission_failed with the failure's message as submission_error, and
\* until the run has ended the documents of the records it already attempted
\* stay as they were marked (only move_to_dlq removes the failed record
\* whose turn it is).
Attempting(s) == submit[s].pc = "loop" /\ submit'[s] # submit[s]

MarkedAsReported(s) ==
  LET i == IndexOfKey(primary', CurrentDoc(s).idempotency_key)
  IN  /\ i # 0
      /\ IF submit'[s].stats.successful = submit[s].stats.successful + 1
         THEN /\ primary'[i].status = "submitted"
              /\ primary'[i].submitted_at # NoTime
         ELSE /\ submit'[s].stats.failed = submit[s].stats.failed + 1
              /\ primary'[i].status = "submission_failed"
              /\ primary'[i].submission_error = submit'[s].error_msg
              /\ primary'[i].submission_error # None

AttemptedStay(s) ==
  \/ primary' = primary
  \/ \A k \in 1..(submit[s].idx - 1) :
       LET i == IndexOfKey(primary, submit[s].pending[k].idempotency_key)
       IN  /\ IndexOfKey(primary', submit[s].pending[k].idempotency_key) = i
           /\ i # 0 => primary'[i] = primary[i]

HoldsWhatItNeeds ==
  /\ (openmrs.sent["encounter"] > 0) => (openmrs.patient_uuid # None)
  /\ (openmrs.sent["obs"] > 0) =>
        (openmrs.encounter_uuid # None /\ openmrs.sent["encounter"] > 0)

SendsInOrder ==
  /\ (openmrs'.sent["patient"] > openmrs.sent["patient"]) =>
        (openmrs'.sent["encounter"] = 0 /\ openmrs'.sent["obs"] = 0)
  /\ (openmrs'.sent["encounter"] > openmrs.sent["encounter"]) =>
        (openmrs'.sent["obs"] = 0)

C12_SubjectEncounterObservationOrder == []HoldsWhatItNeeds /\ [][SendsInOrder]_vars

\* C12 witness: a call created the subject, the encounter and the observation,
\* the encounter needing more than one exchange
C12_Witness ==
  /\ openmrs.pc = "done"
  /\ openmrs.sent["patient"] = 1
  /\ openmrs.sent["encounter"] > 1
  /\ openmrs.sent["obs"] = 1
  /\ openmrs.result = "True"

C14_OneReauthenticationOneResend ==
  openmrs.kinds = {"401"} => (openmrs.reauths <= 1 /\ openmrs.sends <= 2)

\* C15  A create_* call answered with a 4xx status other than 401 has sent
\* its request once and has failed: the call is over and submit_tm2_record
\* returned False.
C15_ClientErrorIsNotRetried ==
  openmrs.kinds = {"4xx"} =>
    (openmrs.sends = 1 /\ openmrs.pc = "done" /\ openmrs.result = "False")

\* C16  A create_* call that meets connection errors or timeouts only sends
\* its request at most settings.openmrs.max_retries times.
C16_AttemptsWithinConfiguredMaximum ==
  openmrs.kinds = {"RequestError"} => openmrs.sends <= openmrs.max_retries

\* C17  Whatever combination of value_numeric, value_text and value_coded a
\* raw record supplies, the record _validate_and_transform produces from it,
\* and the data of every stored document, has at most one of the three set.
ValueFields == {"value_numeric", "value_text", "value_coded"}

Populated(record) == { k \in ValueFields : record[k] # None }

C17_AtMostOneValuePopulated ==
  LET valid == ValidRecords(file)
  IN  /\ \A k \in 1..Len(valid) :
           Cardinality(Populated(_validate_and_transform(valid[k]))) <= 1
      /\ \A k \in 1..Len(primary) : Cardinality(Populated(primary[k].data)) <= 1

\* C17 witness: a raw record that supplies all three values is stored with
\* its numeric value alone
C17_Witness ==
  /\ Len(file) = 1
  /\ file[1] = JsonRow("123", "test_code", "42", " fever ", "C1")
  /\ Len(primary) = 1
  /\ Populated(primary[1].data) = {"value_numeric"}
  /\ primary[1].data.value_numeric = "42.0"

\* C18  Two valid records whose patient_identifier, encounter_datetime,
\* tm2_code and value agree after normalisation get the same idempotency
\* key, in the transformed record and in the store, whatever their other
\* fields and their order in the file; so an ingestion whose upserts were all
\* accepted leaves no more documents than the file has distinct four-field
\* combinations.
RecordValue(record) ==
  IF record.value_numeric # None THEN record.value_numeric
  ELSE IF record.value_text # None THEN record.value_text
  ELSE record.value_coded

FourFields(record) ==
  <<record.patient_identifier, record.encounter_datetime, record.tm2_code,
    RecordValue(record)>>

Transformed(f) ==
  LET valid == ValidRecords(f)
  IN  [k \in 1..Len(valid) |-> _validate_and_transform(valid[k])]

C18_SameFourFieldsSameKey ==
  LET records == Transformed(file)
      fields  == [k \in 1..Len(records) |-> FourFields(records[k])]
      keys    == [k \in 1..Len(records) |->
                    <<records[k].idempotency_key, compute_idempotency_key(records[k])>>]
  IN  /\ \A j, k \in 1..Len(records) : fields[j] = fields[k] => keys[j] = keys[k]
      /\ CleanlyDone(1) =>
           Len(primary) <= Cardinality({ fields[k] : k \in 1..Len(records) })

\* C18 witness: two spellings of one logical record with other demographics
\* were ingested into one document
C18_Witness ==
  /\ CleanlyDone(1)
  /\ Len(file) = 2
  /\ Len(Transformed(file)) = 2
  /\ Transformed(file)[1].given_name # Transformed(file)[2].given_name
  /\ Transformed(file)[1].gender # Transformed(file)[2].gender
  /\ file[1].encounter_datetime # file[2].encounter_datetime
  /\ Len(primary) = 1

\* C19  Two valid records of an ingested file whose key_data differ in
\* patient_identifier, encounter_datetime, tm2_code or value have different
\* canonical strings, also when the values contain '|' and ':'.
KeyInput(f) ==
  [k \in 1..Len(ValidRecords(f)) |-> transformed_data(RawTM2Record(ValidRecords(f)[k]))]

C19_CanonicalStringIsCollisionFree ==
  CleanlyDone(1) =>
    \A j, k \in 1..Len(KeyInput(file)) :
      key_data(KeyInput(file)[j]) # key_data(KeyInput(file)[k])
        => normalized(KeyInput(file)[j]) # normalized(KeyInput(file)[k])

\* C20  A valid raw record whose tm2_code has no mapping is transformed with
\* a null openmrs_concept_uuid, counted in valid_records and not as an error,
\* and, when its upsert reaches the store, stored with a null concept and
\* counted in persisted_records when the key is new.
UnmappedStep(i) ==
  /\ ingest[i].pc = "loop"
  /\ ingest'[i] # ingest[i]
  /\ ~IsBadLine(file[ingest[i].pos])
  /\ RawValid(file[ingest[i].pos])
  /\ file[ingest[i].pos].tm2_code \notin DOMAIN mappings

StoredWithNullConcept(i) ==
  LET record == _validate_and_transform(file[ingest[i].pos])
      key    == compute_idempotency_key(record)
  IN  /\ record.openmrs_concept_uuid = None
      /\ ingest'[i].stats.valid_records = ingest[i].stats.valid_records + 1
      /\ faults' = faults =>
            /\ ingest'[i].stats.invalid_records = ingest[i].stats.invalid_records
            /\ ingest'[i].stats.errors = ingest[i].stats.errors
            /\ IndexOfKey(primary', key) # 0
            /\ primary'[IndexOfKey(primary', key)].data.openmrs_concept_uuid = None
            /\ primary'[IndexOfKey(primary', key)].data.tm2_code
                 = file[ingest[i].pos].tm2_code
            /\ IndexOfKey(primary, key) = 0 =>
                  ingest'[i].stats.persisted_records
                    = ingest[i].stats.persisted_records + 1

C20_UnmappedCodeIsValidWithNullConcept ==
  [][\A i \in IngestRuns : UnmappedStep(i) => StoredWithNullConcept(i)]_vars

\* C20 witness: the record with the unmapped code was ingested, counted as
\* valid and persisted, and stored with a null concept
C20_Witness ==
  /\ file = <<RowC>>
  /\ CleanlyDone(1)
  /\ ingest[1].stats.valid_records = 1
  /\ ingest[1].stats.persisted_records = 1
  /\ ingest[1].stats.errors = <<>>
  /\ Len(primary) = 1
  /\ primary[1].data.tm2_code = "unmapped"
  /\ primary[1].data.openmrs_concept_uuid = None

\* C21  An ingestion whose path does not exist ends with FileNotFoundError
\* before anything else happens: no line is read, no statistics are built or
\* returned, no document carries its batch and no audit event is written
\* for it.
MissingPathRun(i) == ingest[i].path = "missing"

FailedBeforeAnything(i) ==
  /\ ingest[i].pc = "done"
  /\ ingest[i].result = "FileNotFoundError"
  /\ ingest[i].pos = 0
  /\ ingest[i].stats = ZeroIngestStats
  /\ ingest[i].store_errors = 0
  /\ \A k \in 1..Len(primary) : primary[k].batch_id # IngestBatch(i)
  /\ \A k \in 1..Len(audit) : audit[k].batch_id # IngestBatch(i)

C21_MissingPathFailsBeforeAnything ==
  \A i \in IngestRuns : MissingPathRun(i) => FailedBeforeAnything(i)

C21_Witness ==
  /\ Len(file) = 3
  /\ MissingPathRun(1)
  /\ ingest[1].result = "FileNotFoundError"
  /\ ingest[2].path = "file"
  /\ ingest[2].result = "stats"
  /\ Len(primary) = 3
  /\ Len(audit) = 1

\* C22  A store failure on an upsert during ingest: the record is not counted
\* in persisted_records, nothing is written, the loop moves on to the next
\* record (or to the end of the file), and no run ever goes back to a record
\* it has passed.
StoreFailureStep(i) == ingest'[i].store_errors = ingest[i].store_errors + 1

NotPersistedLoopContinues(i) ==
  /\ primary' = primary
  /\ ingest'[i].stats.persisted_records = ingest[i].stats.persisted_records
  /\ ingest'[i].stats.total_read = ingest[i].stats.total_read + 1
  /\ ingest'[i].pos = ingest[i].pos + 1
  /\ ingest'[i].pc = LoopPc(ingest[i].pos + 1)

NeverGoesBack(i) == ingest'[i].pos >= ingest[i].pos

StoreFailureIsSkipped ==
  \A i \in IngestRuns :
    /\ StoreFailureStep(i) => NotPersistedLoopContinues(i)
    /\ NeverGoesBack(i)

Fetching(s) == submit[s].pc = "idle" /\ submit'[s].pc # "idle"

FetchedPageIsBoundedAndPending(s) ==
  LET page == submit'[s].pending
  IN  /\ Len(page) <= submit'[s].limit
      /\ \A k \in 1..Len(page) :
           LET i == IndexOfKey(primary, page[k].idempotency_key)
           IN  /\ i # 0
               /\ primary[i].status = "processed"
               /\ primary[i].submitted_at = NoTime
      /\ \A k, l \in 1..Len(page) :
           page[k].idempotency_key = page[l].idempotency_key => k = l

ClientCalled(s) == submit'[s].stats.attempted # submit[s].stats.attempted

OneCallPerPosition(s) ==
  /\ submit'[s].stats.attempted = submit[s].stats.attempted + 1
  /\ submit[s].idx = submit[s].stats.attempted + 1
  /\ submit[s].idx <= Len(submit[s].pending)
  /\ submit'[s].stats.attempted <= submit[s].limit
  /\ submit'[s].pending = submit[s].pending

PageBoundsTheRun ==
  \A s \in SubmitRuns :
    /\ Fetching(s) => FetchedPageIsBoundedAndPending(s)
    /\ ClientCalled(s) => OneCallPerPosition(s)

C23_PendingPageBoundsClientCalls == [][PageBoundsTheRun]_vars

C23_Witness ==
  /\ submit[1].limit = 1
  /\ submit[1].pc = "done"
  /\ submit[1].stats.attempted = 1
  /\ Len(submit[1].pending) = 1
  /\ Len(SelectSeq(primary, IsPending)) >= 2
  /\ ingest[1].stats.persisted_records >= 3

\* C24  An upsert of a record whose key is already stored writes nothing
\* but updated_at: the document's data, status, batch_id, created_at,
\* first_seen, submitted_at and submission_error stay as they were.
UpsertStep(i) ==
  /\ ingest[i].pc = "loop"
  /\ ingest'[i].stats.valid_records = ingest[i].stats.valid_records + 1

UpsertedKey(i) == compute_idempotency_key(_validate_and_transform(file[ingest[i].pos]))

OnlyUpdatedAtMayChange(old, new) ==
  /\ new.data = old.data
  /\ new.status = old.status
  /\ new.batch_id = old.batch_id
  /\ new.created_at = old.created_at
  /\ new.first_seen = old.first_seen
  /\ new.submitted_at = old.submitted_at
  /\ new.submission_error = old.submission_error

ExistingKeyUpsertWritesNothing ==
  \A i \in IngestRuns :
    (UpsertStep(i) /\ IndexOfKey(primary, UpsertedKey(i)) # 0)
      => LET k == IndexOfKey(primary, UpsertedKey(i))
         IN  /\ IndexOfKey(primary', UpsertedKey(i)) = k
             /\ OnlyUpdatedAtMayChange(primary[k], primary'[k])

C24_UpsertOfExistingKeyIsNoOp == [][ExistingKeyUpsertWritesNothing]_vars

\* C25  first_seen is set when a key is inserted and never changes while
\* the document is stored; an upsert that reaches the store leaves the
\* document's updated_at at the current time, and no document's updated_at
\* ever decreases.
FirstSeenKeptUpdatedAtGrows ==
  \A k \in 1..Len(primary) :
    LET n == IndexOfKey(primary', primary[k].idempotency_key)
    IN  n # 0 => /\ primary'[n].first_seen = primary[k].first_seen
                 /\ primary'[n].updated_at >= primary[k].updated_at

UpsertStampsTheDocument ==
  \A i \in IngestRuns :
    (UpsertStep(i) /\ ingest'[i].store_errors = ingest[i].store_errors)
      => LET n == IndexOfKey(primary', UpsertedKey(i))
         IN  /\ n # 0
             /\ primary'[n].updated_at = clock
             /\ IndexOfKey(primary, UpsertedKey(i)) = 0 => primary'[n].first_seen = clock

FirstSeenAndUpdatedAt == FirstSeenKeptUpdatedAtGrows /\ UpsertStampsTheDocument

C25_FirstSeenFixedUpdatedAtMonotone == [][FirstSeenAndUpdatedAt]_vars

C25_Witness ==
  \E k \in 1..Len(primary) :
    /\ primary[k].submitted_at # NoTime
    /\ primary[k].status = "processed"
    /\ primary[k].first_seen < primary[k].created_at
    /\ primary[k].created_at = primary[k].updated_at

\* C26  A file of n records that all validate, ingested with every store call
\* succeeding: the run returns total_read = valid_records =
\* persisted_records = n, invalid_records = 0 and no errors.
AllValid(f) == \A k \in 1..Len(f) : ~IsBadLine(f[k]) /\ RawValid(f[k])

StoreKeys(f) ==
  [k \in 1..Len(f) |-> compute_idempotency_key(_validate_and_transform(f[k]))]

AllCountsAre(stats, n) ==
  /\ stats.total_read = n
  /\ stats.valid_records = n
  /\ stats.persisted_records = n
  /\ stats.invalid_records = 0
  /\ stats.errors = <<>>

C26_AllValidAllPersisted ==
  (CleanlyDone(1) /\ AllValid(file)) => AllCountsAre(ingest[1].stats, Len(file))

\* C26 (amended)  The same, for a file whose records have pairwise distinct
\* idempotency keys; the store then holds one document per record, in file
\* order, each with the record as its data.
DistinctKeys(f) ==
  LET keys == StoreKeys(f)
  IN  \A j, k \in 1..Len(f) : keys[j] = keys[k] => j = k

StoredInFileOrder(f) ==
  LET keys == StoreKeys(f)
  IN  Contents(primary) = [k \in 1..Len(f) |-> <<keys[k], _validate_and_transform(f[k])>>]

C26_DistinctKeysAllPersisted ==
  (CleanlyDone(1) /\ AllValid(file) /\ DistinctKeys(file))
    => /\ AllCountsAre(ingest[1].stats, Len(file))
       /\ StoredInFileOrder(file)

C26_Witness ==
  /\ CleanlyDone(1)
  /\ Len(file) = MaxRecordFileLen
  /\ AllValid(file)
  /\ DistinctKeys(file)
  /\ ingest[1].stats.persisted_records = MaxRecordFileLen
  /\ Len(primary) = MaxRecordFileLen

\* C27  An ingestion whose path is a directory fails fast with NotAFileError:
\* no record is read and nothing is written to the store for it.
C27_DirectoryFailsWithNotAFileError ==
  \A i \in IngestRuns :
    ingest[i].path = "directory"
      => /\ ingest[i].pc = "done"
         /\ ingest[i].result = "NotAFileError"
         /\ ingest[i].pos = 0
         /\ ingest[i].stats.total_read = 0
         /\ \A k \in 1..Len(primary) : primary[k].batch_id # IngestBatch(i)
         /\ \A k \in 1..Len(audit) : audit[k].batch_id # IngestBatch(i)

\* C28  The batch_id in a trigger's response is the batch_id of the run it
\* scheduled: the one the run's documents and its audit event carry.
ResponseOf(event_type) ==
  IF event_type = "ingestion_completed"
  THEN IngestionTriggerResponse
  ELSE SubmissionTriggerResponse

C28_TriggerReturnsBatchIdOfRun ==
  /\ \A i \in IngestRuns :
       PastChecks(i) => IngestionTriggerResponse.batch_id = IngestBatch(i)
  /\ \A s \in SubmitRuns :
       submit[s].pc # "idle" => SubmissionTriggerResponse.batch_id = SubmitBatch(s)
  /\ \A k \in 1..Len(primary) :
       primary[k].batch_id = IngestionTriggerResponse.batch_id
  /\ \A k \in 1..Len(audit) :
       audit[k].batch_id = ResponseOf(audit[k].event_type).batch_id

\* C29  Once a document carries a successful mark, then as long as it is
\* stored, whatever upserts and marks follow: it keeps the mark, no
\* get_pending_records returns its key, and no submission run attempts it.
MarkedSubmitted(doc) == doc.submitted_at # NoTime

KeysOfPage(page) == { page[k].idempotency_key : k \in 1..Len(page) }

MarkStaysAndKeepsOutOfPages ==
  \A k \in 1..Len(primary) :
    MarkedSubmitted(primary[k])
      => LET key == primary[k].idempotency_key
             n   == IndexOfKey(primary', key)
         IN  /\ n # 0 => MarkedSubmitted(primary'[n])
             /\ \A s \in SubmitRuns : Fetching(s) => key \notin KeysOfPage(submit'[s].pending)
             /\ key \notin KeysOfPage(PendingOf(primary, Len(primary)))

NoAttemptOfMarked ==
  \A s \in SubmitRuns :
    ClientCalled(s)
      => LET n == IndexOfKey(primary, CurrentDoc(s).idempotency_key)
         IN  n # 0 => ~MarkedSubmitted(primary[n])

MarkedIsNeverPendingNorAttempted == MarkStaysAndKeepsOutOfPages /\ NoAttemptOfMarked

C29_SubmittedKeyNeverPendingNorAttempted == [][MarkedIsNeverPendingNorAttempted]_vars

\* C29 (amended)  Once a document carries a successful mark, then as long as
\* it is stored, whatever upserts and marks follow: it keeps the mark and no
\* get_pending_records returns its key; a run attempts only the keys of the
\* page it fetched, so no run that fetches after the mark attempts the key.
AttemptsOnlyItsPage ==
  \A s \in SubmitRuns :
    /\ ~Fetching(s) => submit'[s].pending = submit[s].pending
    /\ ClientCalled(s) => /\ submit[s].idx \in 1..Len(submit[s].pending)
                          /\ submit'[s].idx = submit[s].idx + 1

MarkedIsNeverFetchedAgain == MarkStaysAndKeepsOutOfPages /\ AttemptsOnlyItsPage

C29_SubmittedKeyNeverFetchedAgain == [][MarkedIsNeverFetchedAgain]_vars

C29_Witness ==
  /\ file = <<RowA, RowA2>>
  /\ ingest[1].result = "stats"
  /\ Len(primary) = 1
  /\ MarkedSubmitted(primary[1])
  /\ primary[1].status = "processed"
  /\ primary[1].data = model_dump(_validate_and_transform(RowA2))
  /\ submit[1].stats.successful = 1
  /\ submit[2].pc = "done"
  /\ submit[2].stats.attempted = 0

\* C30  A document leaves the primary collection only in the delete of
\* move_to_dlq, with a dead-letter document for its record already stored;
\* dead-letter documents are never removed; so the keys of an ingestion whose
\* upserts all reached the store are each in the primary collection or in the
\* dead-letter collection.
DlqKeys(coll) == { compute_idempotency_key(coll[j].original_record) : j \in 1..Len(coll) }

LeavesOnlyThroughDlq ==
  \A k \in 1..Len(primary) :
    LET key == primary[k].idempotency_key
    IN  key \notin KeySet(primary')
          => /\ key \in DlqKeys(dlq)
             /\ key \in DlqKeys(dlq')
             /\ \E s \in SubmitRuns : /\ submit[s].pc = "dlq_delete"
                                      /\ submit'[s].pc # "dlq_delete"
                                      /\ CurrentDoc(s).idempotency_key = key

DlqOnlyGrows ==
  /\ Len(dlq') >= Len(dlq)
  /\ SubSeq(dlq', 1, Len(dlq)) = dlq

NoRecordLost ==
  \A i \in IngestRuns :
    CleanlyDone(i) => KeysOfFile(file) \subseteq (KeySet(primary) \cup DlqKeys(dlq))

C30_NoRecordIsLost ==
  /\ []NoRecordLost
  /\ [][LeavesOnlyThroughDlq /\ DlqOnlyGrows]_vars

C30_Witness ==
  /\ Len(file) = 4
  /\ CleanlyDone(1)
  /\ Len(dlq) = 1
  /\ Len(primary) = 3
  /\ DlqKeys(dlq) \cap KeySet(primary) = {}
  /\ KeysOfFile(file) = KeySet(primary) \cup DlqKeys(dlq)

\* C31  mark_submitted, on whatever store it is called with whatever key:
\* creates no document and removes none, leaves every other document as it
\* is, and in the document of the key changes nothing but status,
\* submitted_at, submission_error and updated_at. Every mark a submission run
\* makes has that effect on the primary collection.
MarkKeys ==
  { compute_idempotency_key(_validate_and_transform(r)) : r \in {RowA, RowB, RowC, RowD, RowText} }

MarkArguments == { <<TRUE, None>>, <<FALSE, SubmissionFailedMsg>>, <<FALSE, SubmissionErrorMsg>> }

OnlyMarkFieldsChange(old, new) ==
  /\ new.idempotency_key = old.idempotency_key
  /\ new.data = old.data
  /\ new.batch_id = old.batch_id
  /\ new.first_seen = old.first_seen
  /\ new.created_at = old.created_at

MarkFrame(before, after, key) ==
  /\ Len(after) = Len(before)
  /\ \A k \in 1..Len(before) :
       IF before[k].idempotency_key = key
       THEN OnlyMarkFieldsChange(before[k], after[k])
       ELSE after[k] = before[k]

EveryMarkKeepsTheFrame ==
  \A key \in MarkKeys, args \in MarkArguments :
    MarkFrame(primary, MarkedColl(primary, key, args[1], args[2], clock), key)

MarkStepKeepsTheFrame ==
  \A s \in SubmitRuns :
    ClientCalled(s) => MarkFrame(primary, primary', CurrentDoc(s).idempotency_key)

C31_MarkSubmittedFrame ==
  /\ []EveryMarkKeepsTheFrame
  /\ [][MarkStepKeepsTheFrame]_vars

C31_Witness ==
  /\ Len(dlq) = 1
  /\ DlqKeys(dlq) \subseteq MarkKeys
  /\ DlqKeys(dlq) \cap KeySet(primary) = {}
  /\ submit[1].pc = "done"
  /\ \E j \in 1..Len(primary) :
       /\ primary[j].status = "submission_failed"
       /\ primary[j].submission_error = SubmissionErrorMsg
       /\ primary[j].first_seen < primary[j].updated_at

\* C32  The dead-letter threshold is compared with the failures of the whole
\* run: a run starts move_to_dlq for a record exactly when an exception on
\* that record takes the run's failure count past the threshold, and the
\* record is then at its first attempt in the run.
StartsMoveToDlq(s) == submit[s].pc = "loop" /\ submit'[s].pc = "dlq_insert"

RaisedPastThreshold(s) ==
  /\ submit[s].pc = "loop"
  /\ submit'[s].stats.failed = submit[s].stats.failed + 1
  /\ submit'[s].error_msg = SubmissionErrorMsg
  /\ submit'[s].stats.failed > DlqThreshold

FirstAttemptOfRecord(s) ==
  /\ submit'[s].stats.attempted = submit[s].idx
  /\ \A k \in 1..(submit[s].idx - 1) :
       submit[s].pending[k].idempotency_key # CurrentDoc(s).idempotency_key

ThresholdCountsTheRun ==
  \A s \in SubmitRuns :
    /\ StartsMoveToDlq(s) <=> RaisedPastThreshold(s)
    /\ StartsMoveToDlq(s) => FirstAttemptOfRecord(s)

SendsRequest ==
  /\ openmrs.pc \in {"request", "resend"}
  /\ \E e \in Endpoints : openmrs'.sent[e] = openmrs.sent[e] + 1

AuthenticatedBeforeSending ==
  (SendsRequest /\ ~openmrs.had_token)
    => /\ openmrs.auths >= 1
       /\ openmrs.obtained # None => openmrs'.attached = openmrs.obtained

ValueGiven(raw, k) == Truthy(strip_whitespace(OptionalOf(raw, k)))

ExpectedSlot(raw) ==
  IF ValueGiven(raw, "value_numeric") THEN {"value_numeric"}
  ELSE IF ValueGiven(raw, "value_text") THEN {"value_text"}
  ELSE IF ValueGiven(raw, "value_coded") THEN {"value_coded"}
  ELSE {}

OtherFieldsOk(raw) ==
  /\ RequiredStrOk(raw, "patient_identifier")
  /\ RequiredStrOk(raw, "tm2_code")
  /\ GenderOk(raw)
  /\ DatetimeOk(raw)
  /\ ValueGiven(raw, "value_numeric") => NumericOk(raw)

C34_FirstPresentValueFillsSlot ==
  LET lines == Readable(file)
  IN  \A k \in 1..Len(lines) :
        OtherFieldsOk(lines[k]) =>
          /\ RawValid(lines[k])
          /\ Populated(_validate_and_transform(lines[k])) = ExpectedSlot(lines[k])

\* C35  Every document stored by ingest is filed under the idempotency key
\* that _validate_and_transform computed and stored inside its data: the key
\* upsert_record recomputes from the dumped record is the same one, for
\* numeric, text, coded and value-less records alike.
C35_StoreKeyIsRecordKey ==
  \A k \in 1..Len(primary) :
    primary[k].idempotency_key = primary[k].data.idempotency_key

\* C36  Deduplication collapses only logically identical records: after an
\* ingestion whose upserts were all accepted, every valid record of the file
\* is found in a document of its own four-field combination, so two records
\* that differ in patient_identifier, encounter_datetime, tm2_code or value
\* are two documents and neither has overwritten the other.
StoredFourFields == { FourFields(primary[d].data) : d \in 1..Len(primary) }

C36_DifferentRecordsStoredApart ==
  LET records == Transformed(file)
      fields  == { FourFields(records[k]) : k \in 1..Len(records) }
  IN  CleanlyDone(1) =>
        /\ StoredFourFields = fields
        /\ Len(primary) = Cardinality(fields)

\* C37  At every point of an ingest run and in the returned stats each read
\* record is counted once, as valid or as invalid: total_read =
\* valid_records + invalid_records, persisted_records <= valid_records, and
\* the errors list has one per-record entry for every invalid record; also
\* when an upsert raises an unexpected error.
RecordErrors(errors) ==
  SelectSeq(errors, LAMBDA e : e \in {"Validation error", "Processing error"})

CountedOnce(stats) ==
  /\ stats.total_read = stats.valid_records + stats.invalid_records
  /\ stats.persisted_records <= stats.valid_records
  /\ Len(RecordErrors(stats.errors)) = stats.invalid_records

C37_EachRecordCountedOnce == \A i \in DOMAIN ingest : CountedOnce(ingest[i].stats)

\* C38  At every point of a submit run and in the returned stats attempted =
\* successful + failed, and a record the run counts as successful is left
\* neither with status submission_failed nor on its way to the dead-letter
\* collection; also when mark_submitted raises.
AttemptsAddUp ==
  \A s \in SubmitRuns :
    submit[s].stats.attempted = submit[s].stats.successful + submit[s].stats.failed

CountedSuccessful(s) ==
  submit'[s].stats.successful = submit[s].stats.successful + 1

SuccessfulIsNotFailed ==
  \A s \in SubmitRuns :
    CountedSuccessful(s) =>
      /\ submit'[s].pc # "dlq_insert"
      /\ \A k \in 1..Len(primary') :
           primary'[k].idempotency_key = CurrentDoc(s).idempotency_key
             => primary'[k].status # "submission_failed"

C38_SuccessfulOrFailedNeverBoth ==
  /\ []AttemptsAddUp
  /\ [][SuccessfulIsNotFailed]_vars

\* C39  With patient creation disabled (create_patients false, the default)
\* and no patient identifier supplied, submit_tm2_record returns False
\* without authenticating or sending any request; a submit run under that
\* configuration counts no record successful, marks every record it attempts
\* submission_failed (a mark lost to a store fault aside) and none submitted.
ClientSkipsWithoutRequest ==
  /\ openmrs.pc \in {"idle", "done"}
  /\ openmrs.pc = "done" => openmrs.result = "False"
  /\ openmrs.patient_uuid = None
  /\ openmrs.sent = NoneSent
  /\ openmrs.sends = 0
  /\ openmrs.auths = 0
  /\ openmrs.attached = None
  /\ openmrs._session_token = None

MarkedFailed(key) ==
  \E k \in 1..Len(primary) :
    /\ primary[k].idempotency_key = key
    /\ primary[k].status = "submission_failed"
    /\ primary[k].submission_error = SubmissionFailedMsg

AttemptedAllFailed(s) ==
  LET done   == 1..submit[s].stats.attempted
      marked == { j \in done : MarkedFailed(submit[s].pending[j].idempotency_key) }
  IN  /\ submit[s].stats.successful = 0
      /\ submit[s].stats.failed = submit[s].stats.attempted
      /\ Cardinality(done \ marked) <= faults
      /\ submit[s].pc = "done" => submit[s].stats.attempted = Len(submit[s].pending)

NoneSubmitted ==
  \A k \in 1..Len(primary) :
    primary[k].status # "submitted" /\ primary[k].submitted_at = NoTime

====
